---------------------------- MODULE Spec2Model ----------------------------
(***************************************************************************)
(* PythX: the request model AnalysisSubmissionRequest                      *)
(* (pythx/models/request/analysis_submission.py) and the `truffle` batch   *)
(* command of the CLI (pythx/cli/main.py).                                 *)
(*                                                                         *)
(* Python values are modelled as options: None is the empty tuple and a    *)
(* value v that is not None is the one-element tuple <<v>>.  A str is a    *)
(* TLA+ string, a dict is a function on its keys, a list is a sequence.    *)
(* A source map string "o:l:f:j;o:l:f:j" is the sequence of its entries    *)
(* (its split on ";"), each entry the sequence of its fields (its split    *)
(* on ":"); the empty string is the empty sequence.                        *)
(***************************************************************************)
EXTENDS Naturals, Sequences, FiniteSets, TLC

VARIABLES
    \* ---- request model layer ----
    req,          \* the AnalysisSubmissionRequest at hand (option)
    modeGiven,    \* whether the request at hand was built with analysis_mode passed
    wire,         \* the wire dict at hand (option)
    wireOf,       \* the request whose to_dict() produced `wire` (option)
    raised,       \* exception class raised by the last call, "" when it returned
    op,           \* the last call made
    \* ---- truffle command ----
    artifacts,    \* the artifact files found by find_artifacts, in order
    pc,           \* position of the command
    idx,          \* index of the running for loop
    jobs,         \* main.py:257  list of submitted job uuids
    job_to_name,  \* main.py:258  uuid -> contract name
    escaped,      \* the exception that escaped the command (option)
    svcStatus,    \* the service's status of each job it accepted
    svcPayloads,  \* the service's log of payloads received
    observed,     \* jobs for which analysis_ready() returned True
    checked,      \* jobs that received a status check in the current poll interval
    pollAfterTerminal, \* a status check was issued for a job already observed terminal
    reportLog,    \* the sequence of c.report(uuid) calls made
    termOrder     \* the jobs in the order the service brought them to a terminal status

reqVars == <<req, modeGiven, wire, wireOf, raised, op>>
cmdVars == <<artifacts, pc, idx, jobs, job_to_name, escaped, svcStatus,
             svcPayloads, observed, checked, pollAfterTerminal, reportLog,
             termOrder>>
vars == <<reqVars, cmdVars>>

----------------------------------------------------------------------------
\* Python values

None == <<>>
Some(v) == <<v>>

\* bool(x) of a str / source map, a dict and a list that may be None
TruthyStr(o) == o # None /\ o[1] # ""
TruthyMap(o) == o # None /\ Len(o[1]) > 0
TruthyDict(o) == o # None /\ DOMAIN o[1] # {}
TruthyList(o) == o # None /\ Len(o[1]) > 0

\* d.get(k)
Get(d, k) == IF k \in DOMAIN d THEN d[k] ELSE None

----------------------------------------------------------------------------
\* Bounded input domains

SrcMapA == << <<"0", "10", "1", "-">>, <<"", "", "", "i">> >>
\* A path is the sequence of its components
TokenPath == <<"project", "contracts", "Token.sol">>
SourcesA == [f \in {"Token.sol"} |->
                [source |-> "contract Token {}", ast |-> "ast", legacyAST |-> "legacyAST"]]
EmptyDict == [f \in {} |-> [source |-> "", ast |-> "", legacyAST |-> ""]]

ContractNames == {None, Some(""), Some("Token")}
Bytecodes == {None, Some(""), Some("0x"), Some("0xabc")}
DeployedBytecodes == {None, Some("0x"), Some("0xabc")}
SourceMaps == {None, Some(<<>>), Some(SrcMapA)}
DeployedSourceMaps == {None, Some(SrcMapA)}
SourcesSet == {None, Some(EmptyDict), Some(SourcesA)}
SourceLists == {None, Some(<<>>), Some(<<TokenPath>>)}
Versions == {None, Some("0.5.0")}
Modes == {None, Some("quick"), Some("full"), Some("turbo")}

----------------------------------------------------------------------------
\* AnalysisSubmissionRequest

ANALYSIS_SUBMISSION_KEYS == {"bytecode", "sources"}

Params == {"contract_name", "bytecode", "source_map", "deployed_bytecode",
           "deployed_source_map", "sources", "source_list", "solc_version"}

\* __init__(**kw): every parameter defaults to None, analysis_mode to "quick"
NewRequest(kw) ==
    [contract_name       |-> Get(kw, "contract_name"),
     bytecode            |-> Get(kw, "bytecode"),
     source_map          |-> Get(kw, "source_map"),
     deployed_bytecode   |-> Get(kw, "deployed_bytecode"),
     deployed_source_map |-> Get(kw, "deployed_source_map"),
     sources             |-> Get(kw, "sources"),
     source_list         |-> Get(kw, "source_list"),
     solc_version        |-> Get(kw, "solc_version"),
     analysis_mode       |-> IF "analysis_mode" \in DOMAIN kw
                             THEN kw["analysis_mode"] ELSE Some("quick")]

\* The keyword arguments of a call that passes the eight data fields
Kwargs(cn, bc, sm, dbc, dsm, src, sl, ver) ==
    [p \in Params |->
        CASE p = "contract_name" -> cn
          [] p = "bytecode" -> bc
          [] p = "source_map" -> sm
          [] p = "deployed_bytecode" -> dbc
          [] p = "deployed_source_map" -> dsm
          [] p = "sources" -> src
          [] p = "source_list" -> sl
          [] p = "solc_version" -> ver]

\* kw with analysis_mode=m added
WithMode(kw, m) ==
    [p \in DOMAIN kw \cup {"analysis_mode"} |->
        IF p = "analysis_mode" THEN m ELSE kw[p]]

\* A bug: the data check requires bytecode AND sources
validate_onlyboth(r) ==
    IF r.analysis_mode \notin {Some("full"), Some("quick")}
    THEN "RequestValidationError"
    ELSE IF ~(TruthyStr(r.bytecode) /\ TruthyDict(r.sources))
    THEN "RequestValidationError"
    ELSE ""

\* validate(): the exception class raised, "" when it returns
validate(r) ==
    IF r.analysis_mode \notin {Some("full"), Some("quick")}
    THEN "RequestValidationError"
    ELSE IF ~(TruthyStr(r.bytecode) \/ TruthyDict(r.sources))
    THEN "RequestValidationError"
    ELSE ""

\* pythx.models.util.dict_delete_none_fields: drop the keys whose value is None
dict_delete_none_fields(d) ==
    [k \in {x \in DOMAIN d : d[x] # None} |-> d[k]]

WireKeys == {"contractName", "bytecode", "sourceMap", "deployedBytecode",
             "deployedSourceMap", "sources", "sourceList", "version",
             "analysisMode"}

base_dict(r) ==
    [k \in WireKeys |->
        CASE k = "contractName" -> r.contract_name
          [] k = "bytecode" -> r.bytecode
          [] k = "sourceMap" -> r.source_map
          [] k = "deployedBytecode" -> r.deployed_bytecode
          [] k = "deployedSourceMap" -> r.deployed_source_map
          [] k = "sources" -> IF TruthyDict(r.sources) THEN r.sources ELSE None
          [] k = "sourceList" -> IF TruthyList(r.source_list) THEN r.source_list ELSE None
          [] k = "version" -> r.solc_version
          [] k = "analysisMode" -> r.analysis_mode]

to_dict(r) == dict_delete_none_fields(base_dict(r))

\* A bug: the compiler version is read from the attribute's name, not its wire name
from_dict_wrongkey(d) ==
    IF ~(\E k \in ANALYSIS_SUBMISSION_KEYS : k \in DOMAIN d)
    THEN [raised |-> "RequestDecodeError", value |-> None]
    ELSE [raised |-> "",
          value |-> Some(NewRequest(WithMode(
              Kwargs(Get(d, "contractName"), Get(d, "bytecode"),
                     Get(d, "sourceMap"), Get(d, "deployedBytecode"),
                     Get(d, "deployedSourceMap"), Get(d, "sources"),
                     Get(d, "sourceList"), Get(d, "solcVersion")),
              Get(d, "analysisMode"))))]

\* from_dict(d): the exception raised or the request built.  analysis_mode is
\* always passed, as d.get("analysisMode")
from_dict(d) ==
    IF ~(\E k \in ANALYSIS_SUBMISSION_KEYS : k \in DOMAIN d)
    THEN [raised |-> "RequestDecodeError", value |-> None]
    ELSE [raised |-> "",
          value |-> Some(NewRequest(WithMode(
              Kwargs(Get(d, "contractName"), Get(d, "bytecode"),
                     Get(d, "sourceMap"), Get(d, "deployedBytecode"),
                     Get(d, "deployedSourceMap"), Get(d, "sources"),
                     Get(d, "sourceList"), Get(d, "version")),
              Get(d, "analysisMode"))))]


----------------------------------------------------------------------------
\* The request model layer driven on bounded inputs

\* Wire dicts handed to from_dict that no to_dict() produced
WireInputs ==
    { ("bytecode" :> Some("0xabc")),
      ("sources" :> Some(SourcesA)) @@ ("analysisMode" :> Some("full")),
      ("bytecode" :> Some("0xabc")) @@ ("version" :> Some("0.5.0"))
          @@ ("analysisMode" :> Some("turbo")),
      ("sources" :> Some(SourcesA)) @@ ("contractName" :> Some("Token")),
      ("contractName" :> Some("Token")) @@ ("analysisMode" :> Some("quick")),
      ("bytecode" :> None) @@ ("sourceList" :> Some(<<TokenPath>>)) }

\* The first call: AnalysisSubmissionRequest(...), with or without analysis_mode
Construct ==
    /\ pc = "idle"
    /\ op = ""
    /\ \E cn \in ContractNames, bc \in Bytecodes, sm \in SourceMaps,
          dbc \in DeployedBytecodes, dsm \in DeployedSourceMaps,
          src \in SourcesSet, sl \in SourceLists, ver \in Versions,
          given \in BOOLEAN, m \in Modes :
        LET kw == Kwargs(cn, bc, sm, dbc, dsm, src, sl, ver) IN
        /\ (~given => m = None)
        /\ req' = Some(NewRequest(IF given THEN WithMode(kw, m) ELSE kw))
        /\ modeGiven' = given
    /\ wire' = None
    /\ wireOf' = None
    /\ raised' = ""
    /\ op' = "init"
    /\ UNCHANGED cmdVars

\* req.validate()
Validate ==
    /\ pc = "idle"
    /\ req # None
    /\ raised' = validate(req[1])
    /\ op' = "validate"
    /\ UNCHANGED <<req, modeGiven, wire, wireOf, cmdVars>>

\* req.to_dict()
ToDict ==
    /\ pc = "idle"
    /\ req # None
    /\ wire' = Some(to_dict(req[1]))
    /\ wireOf' = req
    /\ raised' = ""
    /\ op' = "to_dict"
    /\ UNCHANGED <<req, modeGiven, cmdVars>>

\* The first call: a wire dict arrives from persisted or test data
Receive ==
    /\ pc = "idle"
    /\ op = ""
    /\ \E d \in WireInputs : wire' = Some(d)
    /\ wireOf' = None
    /\ req' = None
    /\ modeGiven' = FALSE
    /\ raised' = ""
    /\ op' = "receive"
    /\ UNCHANGED cmdVars

\* AnalysisSubmissionRequest.from_dict(wire)
FromDict ==
    /\ pc = "idle"
    /\ wire # None
    /\ LET res == from_dict(wire[1]) IN
        /\ raised' = res.raised
        /\ req' = res.value
    /\ modeGiven' = ("analysisMode" \in DOMAIN wire[1])
    /\ op' = "from_dict"
    /\ UNCHANGED <<wire, wireOf, cmdVars>>

InitReq ==
    /\ req = None /\ modeGiven = FALSE /\ wire = None /\ wireOf = None
    /\ raised = "" /\ op = ""
    /\ artifacts = <<>> /\ pc = "idle" /\ idx = 1 /\ jobs = <<>>
    /\ job_to_name = <<>> /\ escaped = None /\ svcStatus = <<>>
    /\ svcPayloads = <<>> /\ observed = {} /\ checked = {}
    /\ pollAfterTerminal = FALSE /\ reportLog = <<>> /\ termOrder = <<>>

NextReq == Construct \/ Validate \/ ToDict \/ Receive \/ FromDict

SpecReq == InitReq /\ [][NextReq]_vars

----------------------------------------------------------------------------
\* The truffle command: inputs

MaxArtifacts == 2

IfacePath == <<"project", "contracts", "IToken.sol">>

\* A deployable contract
ArtToken ==
    [contractName |-> Some("Token"), bytecode |-> Some("0xabc"),
     deployedBytecode |-> Some("0xabc"), sourceMap |-> Some(SrcMapA),
     deployedSourceMap |-> Some(SrcMapA), sourcePath |-> TokenPath,
     source |-> "contract Token {}", ast |-> "ast", legacyAST |-> "legacyAST",
     compilerVersion |-> "0.5.0"]

\* An interface: the compiler emits the placeholder "0x" and empty source maps
ArtIface ==
    [contractName |-> Some("IToken"), bytecode |-> Some("0x"),
     deployedBytecode |-> Some("0x"), sourceMap |-> Some(<<>>),
     deployedSourceMap |-> Some(<<>>), sourcePath |-> IfacePath,
     source |-> "interface IToken {}", ast |-> "ast", legacyAST |-> "legacyAST",
     compilerVersion |-> "0.5.0"]

\* An artifact with creation bytecode only and no deployed source map key
ArtPartial ==
    [contractName |-> Some("Token"), bytecode |-> Some("0xabc"),
     deployedBytecode |-> Some("0x"), sourceMap |-> Some(SrcMapA),
     deployedSourceMap |-> None, sourcePath |-> TokenPath,
     source |-> "contract Token {}", ast |-> "ast", legacyAST |-> "legacyAST",
     compilerVersion |-> "0.5.0"]

ArtifactSet == {ArtToken, ArtIface, ArtPartial}

\* The service hands out job uuids that are unique, in an order of its own
JobIds == 1..MaxArtifacts

Terminal == {"Finished", "Error"}

Range(q) == {q[i] : i \in 1..Len(q)}

----------------------------------------------------------------------------
\* The truffle command: helpers

\* os.path.basename
basename(path) == path[Len(path)]

\* utils.zero_srcmap_indices: every file index that is written out becomes 0
zero_srcmap_indices(m) ==
    [i \in 1..Len(m) |->
        [j \in 1..Len(m[i]) |->
            IF j = 3 /\ m[i][j] # "" THEN "0" ELSE m[i][j]]]

\* A bug: the placeholder "0x" is passed on as bytecode
truffle_kwargs_raw(a) ==
    Kwargs(a.contractName,
           a.bytecode,
           IF TruthyMap(a.sourceMap)
               THEN Some(zero_srcmap_indices(a.sourceMap[1])) ELSE None,
           a.deployedBytecode,
           IF TruthyMap(a.deployedSourceMap)
               THEN Some(zero_srcmap_indices(a.deployedSourceMap[1])) ELSE None,
           Some([f \in {basename(a.sourcePath)} |->
                    [source |-> a.source, ast |-> a.ast, legacyAST |-> a.legacyAST]]),
           Some(<<a.sourcePath>>),
           Some(a.compilerVersion))

\* The keyword arguments truffle passes to c.analyze for artifact a
truffle_kwargs(a) ==
    Kwargs(a.contractName,
           IF a.bytecode # Some("0x") THEN a.bytecode ELSE None,
           IF TruthyMap(a.sourceMap)
               THEN Some(zero_srcmap_indices(a.sourceMap[1])) ELSE None,
           IF a.deployedBytecode # Some("0x") THEN a.deployedBytecode ELSE None,
           IF TruthyMap(a.deployedSourceMap)
               THEN Some(zero_srcmap_indices(a.deployedSourceMap[1])) ELSE None,
           Some([f \in {basename(a.sourcePath)} |->
                    [source |-> a.source, ast |-> a.ast, legacyAST |-> a.legacyAST]]),
           Some(<<a.sourcePath>>),
           Some(a.compilerVersion))

\* Client.analyze(**kw): builds the request, validates it and posts its payload.
\* The errors it can raise for the request built from kw.
analyze_errors(kw) ==
    ({validate(NewRequest(kw))} \ {""}) \cup {"ServiceError"}

\* Client.analyze(**kw): the payload posted, {"data": request.to_dict()}
analyze_payload(kw) == to_dict(NewRequest(kw))

\* Client.analysis_ready(uuid), given the status the service reports
analysis_ready(status) == status \in Terminal

----------------------------------------------------------------------------
\* The truffle command: steps

\* main.py:259-287, one iteration of the submission loop
Submit ==
    /\ pc = "submit"
    /\ idx <= Len(artifacts)
    /\ LET kw == truffle_kwargs(artifacts[idx]) IN
        \/ \E e \in analyze_errors(kw) :
            /\ escaped' = Some([phase |-> "submit", at |-> idx, error |-> e])
            /\ pc' = "aborted"
            /\ UNCHANGED <<idx, jobs, job_to_name, svcStatus, svcPayloads>>
        \/ /\ validate(NewRequest(kw)) = ""
           /\ \E u \in JobIds \ DOMAIN svcStatus :
                /\ svcStatus' = svcStatus @@ (u :> "Queued")
                /\ svcPayloads' = Append(svcPayloads,
                        [artifact |-> idx, uuid |-> u, data |-> analyze_payload(kw)])
                /\ jobs' = Append(jobs, u)
                /\ job_to_name' = job_to_name @@ (u :> artifacts[idx].contractName)
           /\ idx' = idx + 1
           /\ UNCHANGED <<pc, escaped>>
    /\ UNCHANGED <<artifacts, observed, checked, pollAfterTerminal, reportLog, termOrder, reqVars>>

\* main.py:289, the submission loop is exhausted and the polling loop starts
EnterPoll ==
    /\ pc = "submit"
    /\ idx > Len(artifacts)
    /\ pc' = "poll"
    /\ idx' = 1
    /\ UNCHANGED <<artifacts, jobs, job_to_name, escaped, svcStatus, svcPayloads,
                   observed, checked, pollAfterTerminal, reportLog, termOrder, reqVars>>

\* main.py:290-293, one call of c.analysis_ready(uuid) for the job the loop is at
PollCheck ==
    /\ pc = "poll"
    /\ idx <= Len(jobs)
    /\ LET u == jobs[idx] IN
        /\ checked' = checked \cup {u}
        /\ pollAfterTerminal' = (pollAfterTerminal \/ u \in observed)
        /\ \/ /\ escaped' = Some([phase |-> "poll", at |-> idx, error |-> "ServiceError"])
              /\ pc' = "aborted"
              /\ UNCHANGED <<idx, observed>>
           \/ /\ analysis_ready(svcStatus[u])
              /\ observed' = observed \cup {u}
              /\ idx' = idx + 1
              /\ UNCHANGED <<pc, escaped>>
           \/ /\ ~analysis_ready(svcStatus[u])
              /\ pc' = "sleep"
              /\ UNCHANGED <<idx, observed, escaped>>
    /\ UNCHANGED <<artifacts, jobs, job_to_name, svcStatus, svcPayloads, reportLog, termOrder, reqVars>>

\* main.py:292, time.sleep(3): the poll interval passes
Sleep ==
    /\ pc = "sleep"
    /\ pc' = "poll"
    /\ checked' = {}
    /\ UNCHANGED <<artifacts, idx, jobs, job_to_name, escaped, svcStatus, svcPayloads,
                   observed, pollAfterTerminal, reportLog, termOrder, reqVars>>

\* main.py:295, the polling loop is exhausted and the report loop starts
EnterReport ==
    /\ pc = "poll"
    /\ idx > Len(jobs)
    /\ pc' = "report"
    /\ idx' = 1
    /\ UNCHANGED <<artifacts, jobs, job_to_name, escaped, svcStatus, svcPayloads,
                   observed, checked, pollAfterTerminal, reportLog, termOrder, reqVars>>

\* A bug: the reports are fetched from the last job to the first
Report_reversed ==
    /\ pc = "report"
    /\ idx <= Len(jobs)
    /\ reportLog' = Append(reportLog, jobs[Len(jobs) + 1 - idx])
    /\ \/ /\ escaped' = Some([phase |-> "report", at |-> idx, error |-> "ServiceError"])
          /\ pc' = "aborted"
          /\ UNCHANGED idx
       \/ /\ idx' = idx + 1
          /\ UNCHANGED <<pc, escaped>>
    /\ UNCHANGED <<artifacts, jobs, job_to_name, svcStatus, svcPayloads,
                   observed, checked, pollAfterTerminal, termOrder, reqVars>>

\* main.py:295-299, one iteration of the report loop
Report ==
    /\ pc = "report"
    /\ idx <= Len(jobs)
    /\ reportLog' = Append(reportLog, jobs[idx])
    /\ \/ /\ escaped' = Some([phase |-> "report", at |-> idx, error |-> "ServiceError"])
          /\ pc' = "aborted"
          /\ UNCHANGED idx
       \/ /\ idx' = idx + 1
          /\ UNCHANGED <<pc, escaped>>
    /\ UNCHANGED <<artifacts, jobs, job_to_name, svcStatus, svcPayloads,
                   observed, checked, pollAfterTerminal, termOrder, reqVars>>

\* main.py:301, the report loop is exhausted and the command returns
Finish ==
    /\ pc = "report"
    /\ idx > Len(jobs)
    /\ pc' = "done"
    /\ UNCHANGED <<artifacts, idx, jobs, job_to_name, escaped, svcStatus, svcPayloads,
                   observed, checked, pollAfterTerminal, reportLog, termOrder, reqVars>>

\* The remote service works on job u: Queued -> Running -> Finished | Error
ServiceStep(u) ==
    /\ u \in DOMAIN svcStatus
    /\ \/ /\ svcStatus[u] = "Queued"
          /\ svcStatus' = [svcStatus EXCEPT ![u] = "Running"]
          /\ UNCHANGED termOrder
       \/ /\ svcStatus[u] = "Running"
          /\ \E t \in Terminal : svcStatus' = [svcStatus EXCEPT ![u] = t]
          /\ termOrder' = Append(termOrder, u)
    /\ UNCHANGED <<artifacts, pc, idx, jobs, job_to_name, escaped, svcPayloads,
                   observed, checked, pollAfterTerminal, reportLog, reqVars>>

Init ==
    /\ req = None /\ modeGiven = FALSE /\ wire = None /\ wireOf = None
    /\ raised = "" /\ op = ""
    /\ artifacts \in UNION {[1..n -> ArtifactSet] : n \in 0..MaxArtifacts}
    /\ pc = "submit" /\ idx = 1 /\ jobs = <<>>
    /\ job_to_name = <<>> /\ escaped = None /\ svcStatus = <<>>
    /\ svcPayloads = <<>> /\ observed = {} /\ checked = {}
    /\ pollAfterTerminal = FALSE /\ reportLog = <<>> /\ termOrder = <<>>

Command ==
    Submit \/ EnterPoll \/ PollCheck \/ Sleep \/ EnterReport \/ Report \/ Finish

Service == \E u \in JobIds : ServiceStep(u)

Next == Command \/ Service

Spec == Init /\ [][Next]_vars

\* The process runs on while it has a step to take, and the service finishes
\* every job it accepted
FairSpec ==
    /\ Init /\ [][Next]_vars
    /\ WF_vars(Command)
    /\ \A u \in JobIds : WF_vars(ServiceStep(u))

----------------------------------------------------------------------------
\* Properties of the truffle command (Spec, FairSpec)

Ended == pc \in {"done", "aborted"}

\* The outcome the caller gets for artifact i: a submission with its job id, or
\* the error its submission raised
SubmittedArtifact(i) == \E k \in 1..Len(svcPayloads) : svcPayloads[k].artifact = i
FailedArtifact(i) ==
    escaped # None /\ escaped[1].phase = "submit" /\ escaped[1].at = i

\* C1: when the command has ended, every artifact found has an outcome: it was
\* submitted (and has a job id), or its submission failed and the failure is
\* reported; a failure of artifact i does not keep artifacts i+1..N from being
\* submitted.
C1_EveryArtifactHasOutcome ==
    Ended => \A i \in 1..Len(artifacts) : SubmittedArtifact(i) \/ FailedArtifact(i)

\* C2: once polling has started, and given that the service brings every job to
\* a terminal status (FairSpec), polling ends with every job observed terminal,
\* and no status check is ever issued for a job already observed terminal.
C2_PollingTerminates ==
    /\ (pc = "poll") ~> (pc = "report" /\ observed = Range(jobs))
    /\ [](~pollAfterTerminal)

\* C3: when a poll interval ends (the command goes to sleep), every job not yet
\* observed terminal has received a status check in that interval.
C3_EveryPendingJobChecked ==
    pc = "sleep" => \A u \in Range(jobs) \ observed : u \in checked

C5_PollErrorNotEscalated ==
    ~(pc = "aborted" /\ escaped # None /\ escaped[1].phase = "poll")

\* C9: the payload submitted for an artifact whose bytecode (deployedBytecode)
\* is the placeholder "0x" has no bytecode (deployedBytecode) key, and no
\* payload carries the literal "0x" under either key.
C9_PlaceholderOmitted ==
    \A k \in 1..Len(svcPayloads) :
        LET a == artifacts[svcPayloads[k].artifact]
            d == svcPayloads[k].data
        IN  /\ (a.bytecode = Some("0x") => "bytecode" \notin DOMAIN d)
            /\ (a.deployedBytecode = Some("0x") => "deployedBytecode" \notin DOMAIN d)
            /\ \A key \in {"bytecode", "deployedBytecode"} \cap DOMAIN d :
                   d[key] # Some("0x")

\* C9 witness: a payload was submitted for an artifact with bytecode "0x" and
\* one for an artifact whose bytecode is real and whose deployedBytecode is "0x".
C9_Witness ==
    /\ \E k \in 1..Len(svcPayloads) :
          artifacts[svcPayloads[k].artifact].bytecode = Some("0x")
    /\ \E k \in 1..Len(svcPayloads) :
          /\ artifacts[svcPayloads[k].artifact].deployedBytecode = Some("0x")
          /\ Get(svcPayloads[k].data, "bytecode") = Some("0xabc")

----------------------------------------------------------------------------
\* Properties of the request model (SpecReq)

ModeAllowed(r) == r.analysis_mode \in {Some("quick"), Some("full")}

\* bytecode or sources is set: present and not empty
HasData(r) ==
    \/ r.bytecode \notin {None, Some("")}
    \/ r.sources \notin {None, Some(EmptyDict)}

\* C6: validate() raises RequestValidationError exactly when the analysis mode
\* is not quick/full or neither bytecode nor sources is set, and returns
\* otherwise.
C6_ValidateExactly ==
    op = "validate" =>
        /\ raised \in {"", "RequestValidationError"}
        /\ (raised = "RequestValidationError") <=> (~ModeAllowed(req[1]) \/ ~HasData(req[1]))

\* C6 witness: a request with only bytecode "0xabc" and the default mode was
\* validated and validate() returned.
C6_Witness ==
    /\ op = "validate"
    /\ raised = ""
    /\ ~modeGiven
    /\ req[1].bytecode = Some("0xabc")
    /\ req[1].sources = None

\* Whether the value under wire key k is empty: null, "", {} or []
IsEmptyValue(k, v) ==
    \/ v = None
    \/ /\ v # None
       /\ CASE k = "sources" -> DOMAIN v[1] = {}
            [] k \in {"sourceList", "sourceMap", "deployedSourceMap"} -> Len(v[1]) = 0
            [] OTHER -> v[1] = ""

\* C7: to_dict() has no key whose value is absent or empty.
C7_NoEmptyValueEmitted ==
    op = "to_dict" => \A k \in DOMAIN wire[1] : ~IsEmptyValue(k, wire[1][k])

\* Whether a field came back from the wire: as it was when its key is in the
\* wire form, absent when its key was omitted
CameBack(k, orig, back) ==
    IF k \in DOMAIN wire[1] THEN back = orig ELSE back = None

\* C8: for a request r that passes validate(), from_dict(to_dict(r)) returns a
\* request whose nine fields equal those of r, a field left out of the wire
\* form coming back absent.
C8_RoundTrip ==
    (op = "from_dict" /\ wireOf # None /\ validate(wireOf[1]) = "") =>
        /\ raised = ""
        /\ req # None
        /\ LET r == wireOf[1]
               b == req[1]
           IN  /\ CameBack("contractName", r.contract_name, b.contract_name)
               /\ CameBack("bytecode", r.bytecode, b.bytecode)
               /\ CameBack("sourceMap", r.source_map, b.source_map)
               /\ CameBack("deployedBytecode", r.deployed_bytecode, b.deployed_bytecode)
               /\ CameBack("deployedSourceMap", r.deployed_source_map, b.deployed_source_map)
               /\ CameBack("sources", r.sources, b.sources)
               /\ CameBack("sourceList", r.source_list, b.source_list)
               /\ CameBack("version", r.solc_version, b.solc_version)
               /\ CameBack("analysisMode", r.analysis_mode, b.analysis_mode)

\* C8 witness: a valid request with a compiler version, a bytecode and an empty
\* sources dict went through to_dict and from_dict; sources came back absent.
C8_Witness ==
    /\ op = "from_dict"
    /\ wireOf # None
    /\ validate(wireOf[1]) = ""
    /\ wireOf[1].solc_version = Some("0.5.0")
    /\ wireOf[1].sources = Some(EmptyDict)
    /\ raised = ""
    /\ req[1].sources = None
    /\ req[1].bytecode = wireOf[1].bytecode

\* C10: a request built without an analysis mode (by the constructor, or by
\* from_dict on a wire dict with no analysisMode key) has mode "quick", and
\* validate() returns for it whenever its bytecode or sources is set.
C10_DefaultModeQuick ==
    (req # None /\ ~modeGiven) =>
        /\ req[1].analysis_mode = Some("quick")
        /\ (op = "validate" /\ HasData(req[1]) => raised = "")

============================================================================
